---- MODULE Spec2Model ----
(***************************************************************************)
(* A model of ezsetup.py: UriResource (descriptor parsing, fetch and       *)
(* checksum verification), Script, Package (fetch, extract, source         *)
(* directory resolution, install, uninstall) and Cli.                      *)
(*                                                                         *)
(* A Python string is modelled as a sequence of symbols.  The symbol "="   *)
(* is the separator character; every other symbol stands for a non-empty   *)
(* run of characters without "=" (a word such as "none", a 64 character    *)
(* hex digest, a piece of a URL).  Two strings are equal exactly when      *)
(* their symbol sequences are equal.                                       *)
(***************************************************************************)
EXTENDS Integers, Sequences, FiniteSets, TLC

VARIABLES
    driver,      \* "cli": run through __main__; "api": a caller of class Package
    argv,        \* sys.argv
    verb,        \* Cli._verb
    package,     \* Cli._package
    pc,          \* the position of the (single) thread of control
    method,      \* the Package method being executed
    pending,     \* the method Cli.exec chains after fetch()
    calls,       \* number of Package methods called by the "api" caller
    uri,         \* Package._uri
    algo,        \* UriResource._algo
    tag,         \* UriResource._tag
    url,         \* UriResource._url
    data,        \* the bytes read by urlopen(...).read()
    tempfile,    \* Package._tempfile
    tempdir,     \* Package._tempdir
    tree,        \* the contents of the directory Package._tempdir.name
    srcdir,      \* Package._srcdir
    err,         \* the exception raised by the last operation
    usage,       \* whether the usage text was printed
    exitCode,    \* the exit status of the process
    netFetches,  \* number of urlopen(...) calls made
    extractions, \* number of tarball.extractall(...) calls made
    fetchOk,     \* number of fetch() calls that returned
    scriptRuns,  \* the subprocess.run(...) calls made
    callLog      \* what the method being executed has done so far

vars == <<driver, argv, verb, package, pc, method, pending, calls, uri, algo,
          tag, url, data, tempfile, tempdir, tree, srcdir, err, usage,
          exitCode, netFetches, extractions, fetchOk, scriptRuns, callLog>>

-----------------------------------------------------------------------------
(* Bounds *)

MaxUriLen == 5      \* symbols in a descriptor given to the parser
MaxDataLen == 1     \* bytes in a fetched buffer
MaxEntries == 2     \* top-level entries of an extracted tree
MaxCalls == 3       \* Package methods called on one instance by a caller
MaxRc == 2          \* largest exit status a script returns
MaxArgs == 2        \* arguments after the program name

-----------------------------------------------------------------------------
(* Strings *)

EQ == "="

RECURSIVE SeqsUpTo(_, _)
SeqsUpTo(S, n) ==
    IF n = 0 THEN {<<>>}
    ELSE LET shorter == SeqsUpTo(S, n - 1)
         IN  shorter \cup {Append(s, x) : s \in {t \in shorter : Len(t) = n - 1}, x \in S}

RECURSIVE Count(_, _)
Count(s, c) ==
    IF s = <<>> THEN 0
    ELSE (IF Head(s) = c THEN 1 ELSE 0) + Count(Tail(s), c)

RECURSIVE Find(_, _, _)
\* str.find: the first index >= i of c in s, 0 when there is none
Find(s, c, i) ==
    IF i > Len(s) THEN 0
    ELSE IF s[i] = c THEN i
    ELSE Find(s, c, i + 1)

RECURSIVE Split(_, _, _)
\* str.split(sep, maxsplit)
Split(s, sep, maxsplit) ==
    LET i == Find(s, sep, 1)
    IN  IF maxsplit = 0 \/ i = 0 THEN <<s>>
        ELSE <<SubSeq(s, 1, i - 1)>> \o Split(SubSeq(s, i + 1, Len(s)), sep, maxsplit - 1)

-----------------------------------------------------------------------------
(* Exceptions *)

NoDigest == <<>>

Exc(type, msg, expected, got, code) ==
    [type |-> type, msg |-> msg, expected |-> expected, got |-> got, code |-> code]

NoErr == Exc("none", "", NoDigest, NoDigest, 0)

RuntimeError(msg, expected, got) == Exc("RuntimeError", msg, expected, got, 0)

-----------------------------------------------------------------------------
(* class UriResource *)

\* A variant of UriResource.__init__ that splits on every "="
UriResourceNewUnlimited(u) ==
    LET segments == Split(u, EQ, -1)
    IN  IF Len(segments) # 3
        THEN [err |-> RuntimeError("Invalid resource location", NoDigest, u),
              algo |-> <<>>, tag |-> <<>>, url |-> <<>>]
        ELSE [err |-> NoErr,
              algo |-> segments[1], tag |-> segments[2], url |-> segments[3]]

\* UriResource.__init__: the fields, or the exception raised
UriResourceNew(u) ==
    LET segments == Split(u, EQ, 2)
    IN  IF Len(segments) # 3
        THEN [err |-> RuntimeError("Invalid resource location", NoDigest, u),
              algo |-> <<>>, tag |-> <<>>, url |-> <<>>]
        ELSE [err |-> NoErr,
              algo |-> segments[1], tag |-> segments[2], url |-> segments[3]]

\* The byte buffers urlopen(...).read() may return
Buffers == SeqsUpTo({0, 1}, MaxDataLen)

\* hashlib.sha256(data).hexdigest(), tabulated for the buffers of up to 3 bytes
Sha256Table ==
    <<>> :> "e3b0c44298fc1c149afbf4c8996fb92427ae41e4649b934ca495991b7852b855" @@
    <<0>> :> "6e340b9cffb37a989ca544e6bb780a2c78901d3fb33738768511a30617afa01d" @@
    <<1>> :> "4bf5122f344554c53bde2ebb8cd2b7e3d1600ad631c385a5d7cce23c7785459a" @@
    <<0, 0>> :> "96a296d224f285c67bee93c30f8a309157f0daa35dc5b87e410b78630a09cfc7" @@
    <<0, 1>> :> "b413f47d13ee2fe6c845b2ee141af81de858df4ec549a58b7970bb96645bc8d2" @@
    <<1, 0>> :> "47dc540c94ceb704a23875c11273e16bb0b8a87aed84de911f2133568115f254" @@
    <<1, 1>> :> "9dcf97a184f32623d11a73124ceb99a5709b083721e878a16d78f596718ba7b2" @@
    <<0, 0, 0>> :> "709e80c88487a2411e1ee4dfb9f22a861492d20c4765150c0c794abd70f8147c" @@
    <<0, 0, 1>> :> "cf7605ed1bc735f6c825554154627467e1cac9df54cee8699218ed434603c568" @@
    <<0, 1, 0>> :> "faee935763044f124d7526755a5058a33f9402a595994d59eddd4be8546ff201" @@
    <<0, 1, 1>> :> "fbb59ed10e9cd4ff45a12c5bb92cbd80df984ba1fe60f26a30febf218e2f0f5e" @@
    <<1, 0, 0>> :> "fb50dc0717ff266cf9baf82b1ce7a1c2ef6d9247859680b11a19fb7077f5f222" @@
    <<1, 0, 1>> :> "85f90dfea1d8027e1463e5ca971a250110a20df0119d204a74220bc63516d15b" @@
    <<1, 1, 0>> :> "9f44ac6acb8a37b00b615dc89259d306035be82dee7db2b472e4c48326195440" @@
    <<1, 1, 1>> :> "75c8fd04ad916aec3e3d5cb76a452b116b3d4d0912a0a485e9fb8e3d240e210c"

\* The digest as a string: one symbol, the 64 lower-case hex characters
Sha256Hex(d) == <<Sha256Table[d]>>

\* A variant of UriResource._verifier_sha256 that computes the digest and
\* does not compare it
VerifierSha256Unchecked(t, d) == NoErr

\* UriResource._verifier_sha256: NoErr, or the exception raised
VerifierSha256(t, d) ==
    LET computed == Sha256Hex(d)
    IN  IF computed # t
        THEN RuntimeError("Unexpected checksum", t, computed)
        ELSE NoErr

\* A variant of UriResource._verify without the final else branch
VerifyNoElse(a, t, d) ==
    IF a = <<"none">> THEN NoErr
    ELSE IF a = <<"sha256">> THEN VerifierSha256(t, d)
    ELSE NoErr

\* UriResource._verify: NoErr, or the exception raised
Verify(a, t, d) ==
    IF a = <<"none">> THEN NoErr
    ELSE IF a = <<"sha256">> THEN VerifierSha256(t, d)
    ELSE RuntimeError("Unexpected verifier algorithm", NoDigest, a)

-----------------------------------------------------------------------------
(* The extracted tree.  A tree is what os.listdir(tempdir) returns, in      *)
(* listing order: entries [name, isdir, sub], where sub is the set of the  *)
(* entries [name, isdir, sub] of a directory and sub of those is the set   *)
(* of names they hold.                                                     *)

INSTALL_SH == "install.sh"
UNINSTALL_SH == "uninstall.sh"

File(n) == [name |-> n, isdir |-> FALSE, sub |-> {}]
Dir(n, s) == [name |-> n, isdir |-> TRUE, sub |-> s]

Names(entries) == {e.name : e \in entries}
Listing(t) == {t[i].name : i \in 1..Len(t)}

\* Paths: None, the scratch directory, or a directory inside it
None == <<>>
TempRoot == <<"tmpdir">>
Join(dir, entry) == Append(dir, entry)

RECURSIVE FirstPackageDir(_)
\* the loop of Package._find_srcdir over the top-level directories
FirstPackageDir(dirs) ==
    IF dirs = <<>> THEN None
    ELSE LET subentries == Names(Head(dirs).sub)
         IN  IF INSTALL_SH \in subentries /\ UNINSTALL_SH \in subentries
             THEN Join(TempRoot, Head(dirs).name)
             ELSE FirstPackageDir(Tail(dirs))

IsDir(e) == e.isdir

\* A variant of Package._find_srcdir that looks at the top level only
FindSrcdirFlat(t) ==
    LET entries == Listing(t)
    IN  IF Len(t) < 1
        THEN [err |-> RuntimeError("Packaged archive has no contents", NoDigest, NoDigest),
              dir |-> None]
        ELSE IF INSTALL_SH \in entries /\ UNINSTALL_SH \in entries
        THEN [err |-> NoErr, dir |-> TempRoot]
        ELSE [err |-> RuntimeError("Failed to locate package scripts", NoDigest, NoDigest),
              dir |-> None]

\* A variant of Package._find_srcdir without the final raise: the function
\* falls off its end and returns None
FindSrcdirNoRaise(t) ==
    LET entries == Listing(t)
        found == FirstPackageDir(SelectSeq(t, IsDir))
    IN  IF Len(t) < 1
        THEN [err |-> RuntimeError("Packaged archive has no contents", NoDigest, NoDigest),
              dir |-> None]
        ELSE IF INSTALL_SH \in entries /\ UNINSTALL_SH \in entries
        THEN [err |-> NoErr, dir |-> TempRoot]
        ELSE [err |-> NoErr, dir |-> found]

\* Package._find_srcdir: the directory returned, or the exception raised
FindSrcdir(t) ==
    LET entries == Listing(t)
        found == FirstPackageDir(SelectSeq(t, IsDir))
    IN  IF Len(t) < 1
        THEN [err |-> RuntimeError("Packaged archive has no contents", NoDigest, NoDigest),
              dir |-> None]
        ELSE IF INSTALL_SH \in entries /\ UNINSTALL_SH \in entries
        THEN [err |-> NoErr, dir |-> TempRoot]
        ELSE IF found # None
        THEN [err |-> NoErr, dir |-> found]
        ELSE [err |-> RuntimeError("Failed to locate package scripts", NoDigest, NoDigest),
              dir |-> None]

\* A variant of Package._make_path that formats the path instead of joining
MakePathFormat(dir, entry) == [err |-> NoErr, path |-> Join(dir, entry)]

\* Package._make_path: os.path.join(self._srcdir, entry) raises TypeError on None
MakePath(dir, entry) ==
    IF dir = None
    THEN [err |-> Exc("TypeError", "expected str, bytes or os.PathLike object", NoDigest, NoDigest, 0),
          path |-> None]
    ELSE [err |-> NoErr, path |-> Join(dir, entry)]

\* A variant of Script.exec without check_returncode()
CheckReturncodeSkipped(rc) == NoErr

\* Script.exec: result.check_returncode()
CheckReturncode(rc) ==
    IF rc # 0
    THEN Exc("CalledProcessError", "returned non-zero exit status", NoDigest, NoDigest, rc)
    ELSE NoErr

\* tarball.extractall into a directory that already holds `old`: entries of
\* the same name are replaced (two directories are merged), new ones added
RECURSIVE ExtractInto(_, _)
ExtractInto(old, new) ==
    IF new = <<>> THEN old
    ELSE LET e == Head(new)
             at == {i \in 1..Len(old) : old[i].name = e.name}
             merged(o) == IF o.isdir /\ e.isdir
                          THEN Dir(e.name, {c \in o.sub : c.name \notin Names(e.sub)} \cup e.sub)
                          ELSE e
         IN  IF at = {}
             THEN ExtractInto(Append(old, e), Tail(new))
             ELSE ExtractInto([i \in 1..Len(old) |-> IF i \in at THEN merged(old[i]) ELSE old[i]],
                              Tail(new))

-----------------------------------------------------------------------------
(* Scratch storage: tempfile.TemporaryFile() and                           *)
(* tempfile.TemporaryDirectory() are released by their finalizers when     *)
(* the object dies or the interpreter exits.                               *)

NoStorage == [state |-> "none", scoped |-> FALSE, content |-> <<>>]

\* tempfile.TemporaryFile()
TemporaryFile == [state |-> "held", scoped |-> TRUE, content |-> <<>>]

\* tempfile.mkdtemp(): a directory nothing removes
MkDTemp == [state |-> "held", scoped |-> FALSE, content |-> <<>>]

\* tempfile.TemporaryDirectory()
TemporaryDirectory == [state |-> "held", scoped |-> TRUE, content |-> <<>>]

\* The finalizer of a scratch object
Finalize(r) ==
    IF r.state = "held" /\ r.scoped THEN [r EXCEPT !.state = "released"] ELSE r

-----------------------------------------------------------------------------
(* Inputs *)

PROG == <<"ezsetup.py">>
URL == "http://test/pkg.tar.gz"

\* Digests a descriptor may carry: the digest of a buffer, the same digest in
\* upper case, and the same digest with its first hex digit changed
GoodDigest == "6e340b9cffb37a989ca544e6bb780a2c78901d3fb33738768511a30617afa01d"
UpperDigest == "6E340B9CFFB37A989CA544E6BB780A2C78901D3FB33738768511A30617AFA01D"
ChangedDigest == "7e340b9cffb37a989ca544e6bb780a2c78901d3fb33738768511a30617afa01d"

\* The package descriptors given on the command line or to Package(...)
Packages ==
    { <<"none", EQ, EQ, URL>>,
      <<"sha256", EQ, GoodDigest, EQ, URL>>,
      <<"sha256", EQ, GoodDigest, EQ, URL, EQ, "v">>,
      <<"sha256", EQ, UpperDigest, EQ, URL>>,
      <<"sha256", EQ, ChangedDigest, EQ, URL>>,
      <<"md5", EQ, GoodDigest, EQ, URL>>,
      <<"none", EQ, URL>> }

Verbs == { <<"install">>, <<"uninstall">>, <<"help">>, <<"remove">> }

\* sys.argv: the program name and up to MaxArgs arguments
Argvs == {<<PROG>> \o a : a \in SeqsUpTo(Verbs \cup Packages, MaxArgs)}

BothScripts == {File(INSTALL_SH), File(UNINSTALL_SH)}

\* The trees a served tarball extracts to
Archives ==
    { <<>>,
      <<File(INSTALL_SH), File(UNINSTALL_SH)>>,
      <<File("README"), Dir("pkg", BothScripts)>>,
      <<File(INSTALL_SH), Dir("pkg", {File(INSTALL_SH)})>>,
      <<Dir("top", {Dir("pkg", {INSTALL_SH, UNINSTALL_SH})})>> }

ExitCodes == 0..MaxRc

\* The bodies the server answers with: nothing, the bytes GoodDigest is the
\* digest of, and those bytes with one bit changed
Served == {<<>>, <<0>>, <<1>>}

-----------------------------------------------------------------------------
(* Control *)

\* An exception leaves the method.  Nothing in ezsetup.py catches it: under
\* __main__ the interpreter prints the traceback and exits with status 1; a
\* caller of Package gets it.
UncaughtExit == 1

Raise(e) ==
    /\ err' = e
    /\ IF driver = "cli"
       THEN pc' = "exit" /\ exitCode' = UncaughtExit
       ELSE pc' = "client" /\ exitCode' = exitCode

\* A variant of Cli._help that ignores its argument
HelpExitZero(errorneous) == 0

\* Cli._help: the status given to sys.exit
HelpExit(errorneous) == IF errorneous THEN 1 ELSE 0

Help(errorneous) ==
    /\ usage' = TRUE
    /\ exitCode' = HelpExit(errorneous)
    /\ pc' = "exit"

\* Cli.__init__
CliInit ==
    /\ pc = "main"
    /\ IF Len(argv) < 3
       THEN /\ Help(TRUE)
            /\ UNCHANGED <<verb, package>>
       ELSE /\ verb' = argv[2]
            /\ package' = argv[3]
            /\ pc' = "cli_exec"
            /\ UNCHANGED <<usage, exitCode>>
    /\ UNCHANGED <<driver, argv, method, pending, calls, uri, algo, tag, url,
                   data, tempfile, tempdir, tree, srcdir, err, netFetches,
                   extractions, fetchOk, scriptRuns, callLog>>

\* The branch Cli.exec takes
CliBranch(v) ==
    IF v = <<"install">> THEN "install"
    ELSE IF v = <<"uninstall">> THEN "uninstall"
    ELSE IF v = <<"help">> THEN "help"
    ELSE "other"

\* Cli.exec: Package(self._package) and the call of fetch(), or Cli._help
CliExec ==
    /\ pc = "cli_exec"
    /\ IF CliBranch(verb) \in {"install", "uninstall"}
       THEN /\ uri' = package
            /\ tempfile' = TemporaryFile
            /\ tempdir' = TemporaryDirectory
            /\ method' = "fetch"
            /\ pending' = CliBranch(verb)
            /\ pc' = "fetch_parse"
            /\ UNCHANGED <<usage, exitCode>>
       ELSE /\ Help(CliBranch(verb) # "help")
            /\ UNCHANGED <<uri, tempfile, tempdir, method, pending>>
    /\ UNCHANGED <<driver, argv, verb, package, calls, algo, tag, url, data,
                   tree, srcdir, err, netFetches, extractions, fetchOk,
                   scriptRuns, callLog>>

\* Package.__init__, called by a caller of the class
PackageInit ==
    /\ pc = "new"
    /\ tempfile' = TemporaryFile
    /\ tempdir' = TemporaryDirectory
    /\ pc' = "client"
    /\ UNCHANGED <<driver, argv, verb, package, method, pending, calls, uri,
                   algo, tag, url, data, tree, srcdir, err, usage, exitCode,
                   netFetches, extractions, fetchOk, scriptRuns, callLog>>

\* A caller of the class calls fetch(), install() or uninstall()
ClientCall(m) ==
    /\ pc = "client"
    /\ calls < MaxCalls
    /\ calls' = calls + 1
    /\ method' = m
    /\ callLog' = <<>>
    /\ err' = NoErr
    /\ pc' = IF m = "fetch" THEN "fetch_parse" ELSE "script"
    /\ UNCHANGED <<driver, argv, verb, package, pending, uri, algo, tag, url,
                   data, tempfile, tempdir, tree, srcdir, usage, exitCode,
                   netFetches, extractions, fetchOk, scriptRuns>>

\* The caller drops the instance and ends
ClientDone ==
    /\ pc = "client"
    /\ pc' = "exit"
    /\ exitCode' = 0
    /\ UNCHANGED <<driver, argv, verb, package, method, pending, calls, uri,
                   algo, tag, url, data, tempfile, tempdir, tree, srcdir, err,
                   usage, netFetches, extractions, fetchOk, scriptRuns, callLog>>

\* Package.fetch, line 104: UriResource(self._uri)
FetchParse ==
    /\ pc = "fetch_parse"
    /\ LET r == UriResourceNew(uri)
       IN  IF r.err # NoErr
           THEN /\ Raise(r.err)
                /\ UNCHANGED <<algo, tag, url>>
           ELSE /\ algo' = r.algo
                /\ tag' = r.tag
                /\ url' = r.url
                /\ pc' = "fetch_urlopen"
                /\ UNCHANGED <<err, exitCode>>
    /\ UNCHANGED <<driver, argv, verb, package, method, pending, calls, uri,
                   data, tempfile, tempdir, tree, srcdir, usage, netFetches,
                   extractions, fetchOk, scriptRuns, callLog>>

\* UriResource.fetch, line 39: urlopen(self._url).read()
UrlOpen ==
    /\ pc = "fetch_urlopen"
    /\ netFetches' = netFetches + 1
    /\ callLog' = Append(callLog, "urlopen")
    /\ \/ /\ Raise(Exc("URLError", "urlopen error", NoDigest, url, 0))
          /\ UNCHANGED data
       \/ /\ data' \in Served
          /\ pc' = "fetch_verify"
          /\ UNCHANGED <<err, exitCode>>
    /\ UNCHANGED <<driver, argv, verb, package, method, pending, calls, uri,
                   algo, tag, url, tempfile, tempdir, tree, srcdir, usage,
                   extractions, fetchOk, scriptRuns>>

\* UriResource.fetch, line 40: self._verify(data)
VerifyStep ==
    /\ pc = "fetch_verify"
    /\ LET e == Verify(algo, tag, data)
       IN  IF e # NoErr
           THEN /\ Raise(e)
                /\ UNCHANGED callLog
           ELSE /\ pc' = "fetch_extract"
                /\ callLog' = Append(callLog, "verified")
                /\ UNCHANGED <<err, exitCode>>
    /\ UNCHANGED <<driver, argv, verb, package, method, pending, calls, uri,
                   algo, tag, url, data, tempfile, tempdir, tree, srcdir,
                   usage, netFetches, extractions, fetchOk, scriptRuns>>

\* Package.fetch, lines 105-110: the bytes are written to the scratch file,
\* tarfile.open reads it from the start and extractall extracts into the
\* scratch directory.  What the bytes decode to is the server's choice; an
\* empty file is no archive; extractall may fail part-way.
Extract ==
    /\ pc = "fetch_extract"
    /\ tempfile' = [tempfile EXCEPT !.content = tempfile.content \o data]
    /\ \/ /\ Raise(Exc("ReadError", "file could not be opened successfully", NoDigest, NoDigest, 0))
          /\ UNCHANGED <<tree, extractions, callLog>>
       \/ /\ tempfile'.content # <<>>
          /\ \E t \in Archives :
                tree' = ExtractInto(tree, t)
          /\ extractions' = extractions + 1
          /\ callLog' = Append(callLog, "extract")
          /\ \/ Raise(Exc("ExtractError", "extraction failed", NoDigest, NoDigest, 0))
             \/ /\ pc' = "fetch_find"
                /\ UNCHANGED <<err, exitCode>>
    /\ UNCHANGED <<driver, argv, verb, package, method, pending, calls, uri,
                   algo, tag, url, data, tempdir, srcdir, usage, netFetches,
                   fetchOk, scriptRuns>>

\* Package.fetch, lines 111-112: self._srcdir = self._find_srcdir(); return
\* self.  Under Cli.exec the chained install() or uninstall() is called next.
FindSrcdirStep ==
    /\ pc = "fetch_find"
    /\ LET r == FindSrcdir(tree)
       IN  IF r.err # NoErr
           THEN /\ Raise(r.err)
                /\ UNCHANGED <<srcdir, fetchOk, method, callLog>>
           ELSE /\ srcdir' = r.dir
                /\ fetchOk' = fetchOk + 1
                /\ UNCHANGED <<err, exitCode>>
                /\ IF driver = "cli"
                   THEN pc' = "script" /\ method' = pending /\ callLog' = <<>>
                   ELSE pc' = "client" /\ UNCHANGED <<method, callLog>>
    /\ UNCHANGED <<driver, argv, verb, package, pending, calls, uri, algo, tag,
                   url, data, tempfile, tempdir, tree, usage, netFetches,
                   extractions, scriptRuns>>

\* The script Package.install or Package.uninstall names
ScriptName(m) == IF m = "install" THEN INSTALL_SH ELSE UNINSTALL_SH

\* Package.install / Package.uninstall: self._make_path(...) and
\* Script(...).exec(self._srcdir)
RunScript ==
    /\ pc = "script"
    /\ LET p == MakePath(srcdir, ScriptName(method))
       IN  IF p.err # NoErr
           THEN /\ Raise(p.err)
                /\ UNCHANGED <<scriptRuns, callLog>>
           ELSE \E rc \in ExitCodes :
                /\ scriptRuns' = Append(scriptRuns, [script |-> p.path, cwd |-> srcdir, rc |-> rc])
                /\ callLog' = Append(callLog, "script")
                /\ IF CheckReturncode(rc) # NoErr
                   THEN Raise(CheckReturncode(rc))
                   ELSE /\ UNCHANGED err
                        /\ IF driver = "cli"
                           THEN pc' = "exit" /\ exitCode' = 0
                           ELSE pc' = "client" /\ UNCHANGED exitCode
    /\ UNCHANGED <<driver, argv, verb, package, method, pending, calls, uri,
                   algo, tag, url, data, tempfile, tempdir, tree, srcdir,
                   usage, netFetches, extractions, fetchOk>>

\* The process ends: the finalizers of the scratch objects run
Exit ==
    /\ pc = "exit"
    /\ tempfile' = Finalize(tempfile)
    /\ tempdir' = Finalize(tempdir)
    /\ pc' = "done"
    /\ UNCHANGED <<driver, argv, verb, package, method, pending, calls, uri,
                   algo, tag, url, data, tree, srcdir, err, usage, exitCode,
                   netFetches, extractions, fetchOk, scriptRuns, callLog>>

-----------------------------------------------------------------------------
(* Specifications *)

\* Nothing has run yet
Fresh ==
    /\ verb = <<>>
    /\ package = <<>>
    /\ pending = ""
    /\ srcdir = None
    /\ err = NoErr
    /\ usage = FALSE
    /\ exitCode = -1
    /\ fetchOk = 0
    /\ scriptRuns = <<>>

\* No fetch() has started
Unfetched ==
    /\ method = ""
    /\ calls = 0
    /\ algo = <<>>
    /\ tag = <<>>
    /\ url = <<>>
    /\ data = <<>>
    /\ tree = <<>>
    /\ netFetches = 0
    /\ extractions = 0
    /\ callLog = <<>>

\* The program started with some argv, or a caller about to build a Package
Init ==
    /\ Fresh
    /\ Unfetched
    /\ tempfile = NoStorage
    /\ tempdir = NoStorage
    /\ \/ /\ driver = "cli"
          /\ argv \in Argvs
          /\ uri = <<>>
          /\ pc = "main"
       \/ /\ driver = "api"
          /\ argv = <<>>
          /\ uri \in Packages
          /\ pc = "new"

Next ==
    \/ CliInit
    \/ CliExec
    \/ PackageInit
    \/ \E m \in {"fetch", "install", "uninstall"} : ClientCall(m)
    \/ ClientDone
    \/ FetchParse
    \/ UrlOpen
    \/ VerifyStep
    \/ Extract
    \/ FindSrcdirStep
    \/ RunScript
    \/ Exit

Spec == Init /\ [][Next]_vars

-----------------------------------------------------------------------------
(* Specifications of single steps of fetch(), started on every input       *)
(* within the bounds                                                       *)

\* The first fetch() of a Package is in progress
InFetch ==
    /\ Fresh
    /\ driver = "api"
    /\ argv = <<>>
    /\ method = "fetch"
    /\ calls = 1
    /\ tempdir = TemporaryDirectory

ParseSymbols == {EQ, "none", "u"}

\* UriResource(uri) on every descriptor of up to MaxUriLen symbols
InitParse ==
    /\ InFetch
    /\ pc = "fetch_parse"
    /\ uri \in SeqsUpTo(ParseSymbols, MaxUriLen)
    /\ algo = <<>>
    /\ tag = <<>>
    /\ url = <<>>
    /\ data = <<>>
    /\ tempfile = TemporaryFile
    /\ tree = <<>>
    /\ netFetches = 0
    /\ extractions = 0
    /\ callLog = <<>>

SpecParse == InitParse /\ [][FetchParse]_vars

AlgoTokens == { <<"none">>, <<"sha256">>, <<"md5">>, <<"SHA256">>, <<>> }

DigestTokens ==
    {<<>>, <<GoodDigest>>, <<UpperDigest>>, <<ChangedDigest>>}
        \cup {Sha256Hex(b) : b \in Buffers}

\* UriResource._verify on every buffer, algorithm token and digest
InitVerify ==
    /\ InFetch
    /\ pc = "fetch_verify"
    /\ algo \in AlgoTokens
    /\ tag \in DigestTokens
    /\ url = <<URL>>
    /\ uri = algo \o <<EQ>> \o tag \o <<EQ>> \o url
    /\ data \in Buffers
    /\ tempfile = TemporaryFile
    /\ tree = <<>>
    /\ netFetches = 1
    /\ extractions = 0
    /\ callLog = <<"urlopen">>

SpecVerify == InitVerify /\ [][VerifyStep]_vars

\* What a top-level directory may hold: each script or not, and a directory
\* "d" that is absent, empty or holds both scripts
ChildSets ==
    { a \cup b \cup c :
        a \in {{}, {File(INSTALL_SH)}},
        b \in {{}, {File(UNINSTALL_SH)}},
        c \in {{}, {Dir("d", {})}, {Dir("d", {INSTALL_SH, UNINSTALL_SH})}} }

TopNames == {INSTALL_SH, UNINSTALL_SH, "a", "b"}

TopEntries ==
    {File(n) : n \in TopNames} \cup {Dir(n, c) : n \in TopNames, c \in ChildSets}

\* Every listing of up to n entries with distinct names
Trees(n) ==
    { t \in SeqsUpTo(TopEntries, n) :
        \A i, j \in 1..Len(t) : i # j => t[i].name # t[j].name }

\* Package._find_srcdir on every extracted tree
InitFind ==
    /\ InFetch
    /\ pc = "fetch_find"
    /\ uri = <<"none", EQ, EQ, URL>>
    /\ algo = <<"none">>
    /\ tag = <<>>
    /\ url = <<URL>>
    /\ data = <<0>>
    /\ tempfile = [TemporaryFile EXCEPT !.content = <<0>>]
    /\ tree \in Trees(MaxEntries)
    /\ netFetches = 1
    /\ extractions = 1
    /\ callLog = <<"urlopen", "verified", "extract">>

SpecFind == InitFind /\ [][FindSrcdirStep]_vars

-----------------------------------------------------------------------------
(* Claims *)

Range(q) == {q[i] : i \in 1..Len(q)}

Min(S) == CHOOSE x \in S : \A y \in S : x <= y

Both(S) == INSTALL_SH \in S /\ UNINSTALL_SH \in S

\* The digest check the descriptor asks for passes on the fetched bytes
DigestAccepts ==
    \/ algo = <<"none">>
    \/ algo = <<"sha256">> /\ tag = Sha256Hex(data)

VerificationFailed ==
    err.msg \in {"Unexpected checksum", "Unexpected verifier algorithm"}

\* C1: in every run of fetch(), extraction happens only after the fetched
\* bytes passed verification: whenever the run has extracted, it had fetched
\* and verified first and the digest check accepts the bytes; and when
\* verification failed, the run made its network fetch and nothing else, the
\* error reached the caller (the process exits non-zero), and no extraction
\* and no script execution happened.
C1_VerifyBeforeExtract ==
    /\ "extract" \in Range(callLog) =>
          /\ SubSeq(callLog, 1, 3) = <<"urlopen", "verified", "extract">>
          /\ DigestAccepts
    /\ pc = "fetch_find" => DigestAccepts
    /\ VerificationFailed =>
          /\ ~DigestAccepts
          /\ callLog = <<"urlopen">>
          /\ pc \in {"client", "exit", "done"}
          /\ driver = "cli" =>
                /\ exitCode = UncaughtExit
                /\ netFetches = 1
                /\ extractions = 0
                /\ tree = <<>>
                /\ scriptRuns = <<>>

\* C1 witness: the descriptor with one changed hex digit: fetched, refused,
\* process ended
C1_Witness ==
    /\ driver = "cli"
    /\ pc = "done"
    /\ tag = <<ChangedDigest>>
    /\ data = <<0>>
    /\ err.msg = "Unexpected checksum"
    /\ netFetches = 1

\* A fetch() on this instance has returned: its state is Fetched
Fetched == fetchOk > 0

ScriptPaths(dir) == {Join(dir, INSTALL_SH), Join(dir, UNINSTALL_SH)}

\* C2: a lifecycle script is executed only by an instance in state Fetched.
\* Every script that ran was run by an instance on which a fetch() had
\* returned, from the source directory that fetch() resolved; under the
\* command line, a failure of parse, fetch, verification, extraction or
\* source-root resolution leaves no script run; and install() or uninstall()
\* on an instance on which fetch() never succeeded fails without running one.
C2_ScriptOnlyWhenFetched ==
    /\ scriptRuns # <<>> => Fetched /\ srcdir # None
    /\ \A i \in 1..Len(scriptRuns) :
          /\ scriptRuns[i].cwd # None
          /\ scriptRuns[i].script \in ScriptPaths(scriptRuns[i].cwd)
    /\ (driver = "cli" /\ err # NoErr /\ err.type # "CalledProcessError") =>
          scriptRuns = <<>>
    /\ (~Fetched /\ method \in {"install", "uninstall"} /\ pc # "script") =>
          /\ err.type = "TypeError"
          /\ callLog = <<>>
          /\ scriptRuns = <<>>

\* C2 witness: install() called on an instance whose fetch() failed in
\* source-root resolution
C2_Witness ==
    /\ driver = "api"
    /\ method = "install"
    /\ pc = "client"
    /\ extractions = 1
    /\ ~Fetched
    /\ err.type = "TypeError"

\* C3: verification succeeds exactly when the algorithm is "none", or it is
\* "sha256" and the lower-case hex digest of the buffer equals the expected
\* digest symbol for symbol; a sha256 mismatch raises an error carrying the
\* expected and the computed digest, any other token an error naming it.
C3_VerifyCorrect ==
    pc # "fetch_verify" =>
        /\ DigestAccepts <=> (err = NoErr /\ pc = "fetch_extract")
        /\ (algo = <<"sha256">> /\ ~DigestAccepts) =>
              /\ err.msg = "Unexpected checksum"
              /\ err.expected = tag
              /\ err.got = <<Sha256Table[data]>>
        /\ algo \notin {<<"none">>, <<"sha256">>} =>
              /\ err.msg = "Unexpected verifier algorithm"
              /\ err.got = algo

\* C3 witness: the right digest in upper case is refused
C3_Witness ==
    /\ pc = "client"
    /\ algo = <<"sha256">>
    /\ tag = <<UpperDigest>>
    /\ data = <<0>>
    /\ err.msg = "Unexpected checksum"
    /\ err.got = <<GoodDigest>>

MatchingDirs(t) == {i \in 1..Len(t) : t[i].isdir /\ Both(Names(t[i].sub))}

\* C4: source-root resolution fails with "no contents" on an empty scratch
\* directory, returns the scratch root when it lists both scripts, otherwise
\* the first listed subdirectory that lists both, and fails with "failed to
\* locate" when there is none.
C4_FindSrcdirCorrect ==
    pc # "fetch_find" =>
        IF Len(tree) = 0
        THEN err.msg = "Packaged archive has no contents" /\ srcdir = None
        ELSE IF Both(Listing(tree))
        THEN err = NoErr /\ srcdir = TempRoot
        ELSE IF MatchingDirs(tree) # {}
        THEN err = NoErr /\ srcdir = <<"tmpdir", tree[Min(MatchingDirs(tree))].name>>
        ELSE err.msg = "Failed to locate package scripts" /\ srcdir = None

\* C4 witness: two subdirectories hold both scripts and the first listed one
\* is returned
C4_Witness ==
    /\ pc = "client"
    /\ MatchingDirs(tree) = {1, 2}
    /\ srcdir = <<"tmpdir", tree[1].name>>

\* C5 as stated: a failing script's status c is the status of the process
C5_ExitStatusIsScriptStatus ==
    (driver = "cli" /\ pc = "done" /\ scriptRuns # <<>>) =>
        exitCode = scriptRuns[1].rc

\* C5 as amended: status 0 of the script gives exit status 0; a non-zero
\* status c raises CalledProcessError carrying c, nothing is retried, and
\* the process exits with the status of an uncaught exception, 1, whatever
\* c is.
C5_ScriptStatusDecidesExit ==
    (driver = "cli" /\ pc \in {"exit", "done"} /\ scriptRuns # <<>>) =>
        /\ Len(scriptRuns) = 1
        /\ scriptRuns[1].rc = 0 => (exitCode = 0 /\ err = NoErr)
        /\ scriptRuns[1].rc # 0 =>
              /\ err.type = "CalledProcessError"
              /\ err.code = scriptRuns[1].rc
              /\ exitCode = 1

\* C5 witness: uninstall.sh exits with 2 and the process with 1
C5_Witness ==
    /\ driver = "cli"
    /\ pc = "done"
    /\ Len(scriptRuns) = 1
    /\ scriptRuns[1].script = <<"tmpdir", "uninstall.sh">>
    /\ scriptRuns[1].rc = 2
    /\ exitCode = 1

\* C6 as stated: on one instance no transition is taken twice
C6_NoTransitionTwice ==
    /\ netFetches <= 1
    /\ extractions <= 1
    /\ Len(scriptRuns) <= 1

\* C6 as amended: a run of the command line takes Created -> Fetched ->
\* Installed or Uninstalled once, on a fresh instance; the class itself only
\* orders Created before Fetched: install() and uninstall() need a fetch()
\* that returned, and on a Fetched instance every further install() or
\* uninstall() runs its script and every further fetch() that returns has
\* fetched and extracted again.
C6_StateMachine ==
    /\ driver = "cli" =>
          /\ netFetches <= 1
          /\ extractions <= 1
          /\ Len(scriptRuns) <= 1
          /\ fetchOk <= 1
    /\ scriptRuns # <<>> => Fetched
    /\ (driver = "api" /\ pc = "client" /\ Fetched
          /\ method \in {"install", "uninstall"}) =>
          /\ callLog = <<"script">>
          /\ scriptRuns[Len(scriptRuns)].script = Join(srcdir, ScriptName(method))
    /\ (driver = "api" /\ pc = "client" /\ method = "fetch" /\ err = NoErr) =>
          callLog = <<"urlopen", "verified", "extract">>

\* C6 witness: install() and then uninstall() both ran on one instance
C6_Witness ==
    /\ driver = "api"
    /\ Len(scriptRuns) = 2
    /\ scriptRuns[1].script = Join(srcdir, INSTALL_SH)
    /\ scriptRuns[2].script = Join(srcdir, UNINSTALL_SH)
    /\ fetchOk = 1

\* C7: when the process has ended, on whatever path, the scratch directory
\* and the scratch file of the invocation are no longer held.
C7_ScratchReleased ==
    pc = "done" => (tempfile.state # "held" /\ tempdir.state # "held")

\* C7 witness: the descriptor did not parse, after the scratch storage was
\* acquired, and the storage is released at the end
C7_Witness ==
    /\ driver = "cli"
    /\ pc = "done"
    /\ err.msg = "Invalid resource location"
    /\ tempfile.state = "released"
    /\ tempdir.state = "released"

\* C8 as stated: the verb help, with or without a descriptor, prints the
\* usage text and exits with status 0 and nothing is fetched, extracted or run
C8_HelpExitsZero ==
    (driver = "cli" /\ pc = "done" /\ Len(argv) >= 2 /\ argv[2] = <<"help">>) =>
        /\ usage
        /\ exitCode = 0
        /\ netFetches = 0
        /\ extractions = 0
        /\ scriptRuns = <<>>

\* C9: with zero or one argument after the program name, or a verb other
\* than install, uninstall and help, the usage text is printed, the exit
\* status is non-zero and no package is fetched, extracted or executed.
C9_UsageError ==
    (driver = "cli" /\ pc \in {"exit", "done"}
        /\ (Len(argv) < 3 \/ argv[2] \notin {<<"install">>, <<"uninstall">>, <<"help">>})) =>
        /\ usage
        /\ exitCode > 0
        /\ netFetches = 0
        /\ extractions = 0
        /\ scriptRuns = <<>>
        /\ tempdir.state = "none"
        /\ tempfile.state = "none"

\* C9 witness: an unknown verb with a well-formed descriptor
C9_Witness ==
    /\ driver = "cli"
    /\ pc = "done"
    /\ Len(argv) = 3
    /\ argv[2] = <<"remove">>
    /\ argv[3] = <<"none", EQ, EQ, URL>>
    /\ usage
    /\ exitCode = 1

\* C10: a descriptor with at least two "=" parses to (algorithm, digest,
\* url): the part before the first "=", the part between the first two, and
\* everything after the second with its "=" kept; one with fewer fails as an
\* invalid resource location.
C10_ParseCorrect ==
    pc # "fetch_parse" =>
        IF Count(uri, EQ) >= 2
        THEN /\ err = NoErr
             /\ pc = "fetch_urlopen"
             /\ algo \o <<EQ>> \o tag \o <<EQ>> \o url = uri
             /\ Count(algo, EQ) = 0
             /\ Count(tag, EQ) = 0
        ELSE /\ err.msg = "Invalid resource location"
             /\ err.got = uri
             /\ pc = "client"
             /\ algo = <<>> /\ tag = <<>> /\ url = <<>>

\* C10 witness: an empty digest and a url that holds "="
C10_Witness ==
    /\ pc = "fetch_urlopen"
    /\ algo = <<"none">>
    /\ tag = <<>>
    /\ url = <<"u", EQ>>

====
